---- MODULE Spec2Model ----
(***************************************************************************)
(* tinywx: one invocation of the command-line weather tool.                *)
(*                                                                         *)
(*   src/src/main.rs     main, app, toml_from_file, Config                 *)
(*   src/wx/src/lib.rs   Location, Units, CurrentWeather::get, match_icon, *)
(*                       get (the fetch), epoch_to_time                    *)
(*                                                                         *)
(* Strings are TLA+ strings (\o is concatenation); a character outside     *)
(* ASCII is written as its code point (U+00B0 is the degree sign).  An f64 *)
(* measurement is kept in tenths (154 is 15.4).  A Result, or a call that  *)
(* may panic, is a record [ok |-> BOOLEAN, val |-> STRING].                *)
(***************************************************************************)
EXTENDS Integers, Sequences, FiniteSets, TLC

\* Longest list of requested data fields an invocation or a file supplies.
MaxData == 2

(***************************************************************************)
(* Inputs: the command line, the configuration file, the provider's answer *)
(***************************************************************************)

\* The arguments app() declares (main.rs:31-95).
ArgNames == {"city", "state", "country", "data", "imperial", "api_key", "file"}

\* .required(true) (main.rs:36,52,60,77).
RequiredArgs == {"city", "country", "data", "api_key"}

\* .possible_values of "data" (main.rs:62).
possible_values == {"icon", "temp", "feels_like", "description", "humidity"}

\* .conflicts_with_all of "file" (main.rs:94).
conflicts_with_all == {"city", "state", "country", "data", "imperial", "api_key"}

\* The field names CurrentWeather::get matches (lib.rs:169-174).
KnownItems == {"icon", "temp", "feels_like", "humidity", "description", "time"}

\* Field names a user may write: the known ones and one get does not know.
Tokens == KnownItems \cup {"pressure"}

RECURSIVE SeqsUpTo(_, _)
SeqsUpTo(S, n) ==
    IF n = 0 THEN {<< >>}
    ELSE LET shorter == SeqsUpTo(S, n - 1)
         IN  shorter \cup {Append(s, x) : s \in {t \in shorter : Len(t) = n - 1}, x \in S}

DataLists == SeqsUpTo(Tokens, MaxData)

\* A command line: which arguments are present, and the values of those.
Invocation(P, d) ==
    [present  |-> P,
     city     |-> IF "city" \in P THEN "Paris" ELSE "",
     state    |-> IF "state" \in P THEN "TX" ELSE "",
     country  |-> IF "country" \in P THEN "US" ELSE "",
     api_key  |-> IF "api_key" \in P THEN "k3y" ELSE "",
     data     |-> IF "data" \in P THEN d ELSE << >>]

Invocations == {Invocation(P, d) : P \in SUBSET ArgNames, d \in DataLists}

\* The keys of the Config struct (main.rs:8-18) and those without
\* #[serde(default)].
ConfigKeys == {"city", "state", "country", "api_key", "imperial", "data"}
RequiredKeys == {"city", "country", "api_key"}

\* What the path given to -f holds: nothing readable, text that is no TOML
\* (or has a value of the wrong type), or a TOML table with some keys.
Table(K, d) ==
    [kind     |-> "table",
     keys     |-> K,
     city     |-> IF "city" \in K THEN "Austin" ELSE "",
     state    |-> IF "state" \in K THEN "TX" ELSE "",
     country  |-> IF "country" \in K THEN "US" ELSE "",
     api_key  |-> IF "api_key" \in K THEN "f1l3" ELSE "",
     imperial |-> "imperial" \in K,
     data     |-> IF "data" \in K THEN d ELSE << >>]

NoTable(k) == [Table({}, << >>) EXCEPT !.kind = k]

Files ==
    {NoTable("unreadable"), NoTable("malformed")}
    \cup {Table(RequiredKeys \cup O, d) : O \in SUBSET (ConfigKeys \ RequiredKeys), d \in DataLists}
    \cup {Table(K \cup {"data"}, <<"temp">>) : K \in (SUBSET RequiredKeys) \ {RequiredKeys}}

\* The file on disk when the command line does not name it alone.
SomeFile == Table(ConfigKeys, <<"temp">>)

\* Icon codes a provider may send: those of lib.rs:9-26 and others.
IconTable ==
    {"01d", "01n", "02d", "02n", "03d", "03n", "04d", "04n", "09d", "09n",
     "10d", "10n", "11d", "11n", "13d", "13n", "50d", "50n"}
IconCodes == IconTable \cup {"", "01", "99d"}

Condition(c, text) == [icon |-> c, description |-> text]

\* A parsed body: the fields of CurrentWeather (lib.rs:143-163) that get reads.
BaseWeather ==
    [weather    |-> <<Condition("01d", "clear sky")>>,
     temp       |-> 150,
     feels_like |-> -6,
     humidity   |-> 81,
     dt         |-> 0,
     timezone   |-> 3600]

Responses ==
    {[BaseWeather EXCEPT !.weather = <<Condition(c, "light rain")>>] : c \in IconCodes}
    \cup {[BaseWeather EXCEPT !.weather = << >>],
          [BaseWeather EXCEPT !.weather = <<Condition("10n", "rain"), Condition("50d", "mist")>>]}
    \cup {[BaseWeather EXCEPT !.temp = t, !.feels_like = 0 - t] : t \in {154, 155, 4, 5, 296}}
    \cup {[BaseWeather EXCEPT !.dt = d, !.timezone = z] :
             d \in {0, 3599, 86399, 1700000000}, z \in {-3600, 0, 3600, 19800}}

(***************************************************************************)
(* State                                                                   *)
(***************************************************************************)
VARIABLES
    argv,             \* the command line
    file,             \* what the path given to -f holds
    pc,               \* where the run is
    cfg,              \* app's cfg (main.rs:100)
    requests,         \* the HTTP requests issued so far, each its query pairs
    current_weather,  \* app's current_weather (main.rs:129)
    rendered,         \* the strings the map over cfg.data has produced
    panic_at,         \* index of the data field whose rendering panicked, or 0
    result,           \* what app() returned
    stdout,           \* lines written to standard output
    stderr,           \* lines written to standard error
    exit_code         \* the process exit status, -1 while running

vars == <<argv, file, pc, cfg, requests, current_weather, rendered, panic_at,
          result, stdout, stderr, exit_code>>

Ok(v) == [ok |-> TRUE, val |-> v]
Err(e) == [ok |-> FALSE, val |-> e]

\* Config::default() (main.rs:7, 100).
Config_default ==
    [city |-> "", state |-> "", country |-> "", api_key |-> "",
     imperial |-> FALSE, data |-> << >>]

NoWeather == [BaseWeather EXCEPT !.weather = << >>, !.temp = 0, !.feels_like = 0,
                                 !.humidity = 0, !.dt = 0, !.timezone = 0]

Init ==
    /\ argv \in Invocations
    /\ file \in (IF argv.present = {"file"} THEN Files ELSE {SomeFile})
    /\ pc = "get_matches"
    /\ cfg = Config_default
    /\ requests = << >>
    /\ current_weather = NoWeather
    /\ rendered = << >>
    /\ panic_at = 0
    /\ result = Ok("")
    /\ stdout = << >>
    /\ stderr = << >>
    /\ exit_code = -1

(***************************************************************************)
(* wx (src/wx/src/lib.rs)                                                  *)
(***************************************************************************)

\* Location::to_string without its test for an empty state.
Location_to_string_always_state(city, state, country) ==
    city \o "," \o state \o "," \o country

\* Location::to_string (lib.rs:46-52).
Location_to_string(city, state, country) ==
    IF state = ""
    THEN city \o "," \o country
    ELSE city \o "," \o state \o "," \o country

\* Units::as_str of the units app chooses (lib.rs:63-68, main.rs:124-128).
Units_as_str(imperial) == IF imperial THEN "imperial" ELSE "metric"

\* The query get() appends to the endpoint's URL (lib.rs:200-204).  The
\* pairs are kept as append_pair receives them.
query_pairs(location, units, key) ==
    <<<<"q", location>>, <<"units", units>>, <<"appid", key>>>>

\* match_icon with the night alternative of the snow arm forgotten.
match_icon_snow_day_only(code) ==
    CASE code = "01d" -> "U+E30D"
      [] code = "01n" -> "U+F186"
      [] code = "02d" -> "U+E302"
      [] code = "02n" -> "U+E37E"
      [] code \in {"03d", "03n"} -> "U+FA8F"
      [] code \in {"04d", "04n"} -> "U+E312"
      [] code \in {"09d", "09n"} -> "U+E34A"
      [] code \in {"10d", "10n"} -> "U+E371"
      [] code \in {"11d", "11n"} -> "U+E315"
      [] code = "13d" -> "U+F2DC"
      [] code \in {"50d", "50n"} -> "U+E31E"
      [] OTHER -> "?"

\* match_icon (lib.rs:181-196).  A symbol is named by its code point.
match_icon(code) ==
    CASE code = "01d" -> "U+E30D"
      [] code = "01n" -> "U+F186"
      [] code = "02d" -> "U+E302"
      [] code = "02n" -> "U+E37E"
      [] code \in {"03d", "03n"} -> "U+FA8F"
      [] code \in {"04d", "04n"} -> "U+E312"
      [] code \in {"09d", "09n"} -> "U+E34A"
      [] code \in {"10d", "10n"} -> "U+E371"
      [] code \in {"11d", "11n"} -> "U+E315"
      [] code \in {"13d", "13n"} -> "U+F2DC"
      [] code \in {"50d", "50n"} -> "U+E31E"
      [] OTHER -> "?"

\* Two decimal digits, as chrono's %H, %M and %S print them.
TwoDigits(n) == IF n < 10 THEN "0" \o ToString(n) ELSE ToString(n)

\* epoch_to_time (lib.rs:214-218): try_into::<u64>().unwrap() panics on a
\* negative epoch; otherwise the UTC time of day of that instant.
epoch_to_time(epoch) ==
    IF epoch < 0
    THEN Err("called Result::unwrap() on an Err value: TryFromIntError(())")
    ELSE LET secs == epoch % 86400
         IN  Ok(TwoDigits(secs \div 3600) \o ":" \o TwoDigits((secs % 3600) \div 60)
                \o ":" \o TwoDigits(secs % 60))

\* f64::round of a value in tenths (half away from zero), printed with {}:
\* a negative value that rounds to zero prints as -0.
round_display(tenths) ==
    LET mag == IF tenths < 0 THEN 0 - tenths ELSE tenths
        r   == (mag + 5) \div 10
    IN  IF tenths < 0 THEN "-" \o ToString(r) ELSE ToString(r)

\* weather.first() with a default in place of the index.
first_condition_or_default(w) ==
    IF w.weather = << >> THEN Ok(Condition("", "")) ELSE Ok(w.weather[1])

\* Indexing weather[0] (lib.rs:169, 173) panics on an empty list.
first_condition(w) ==
    IF w.weather = << >>
    THEN Err("index out of bounds: the len is 0 but the index is 0")
    ELSE Ok(w.weather[1])

\* CurrentWeather::get (lib.rs:167-177).  Ok(text), or Err(message) for a
\* panic.
CurrentWeather_get(w, item) ==
    CASE item = "icon" ->
           IF first_condition(w).ok THEN Ok(match_icon(first_condition(w).val.icon))
           ELSE first_condition(w)
      [] item = "temp" -> Ok(round_display(w.temp) \o "U+00B0")
      [] item = "feels_like" -> Ok(round_display(w.feels_like) \o "U+00B0")
      [] item = "humidity" -> Ok(ToString(w.humidity) \o "%")
      [] item = "description" ->
           IF first_condition(w).ok THEN Ok(first_condition(w).val.description)
           ELSE first_condition(w)
      [] item = "time" -> epoch_to_time(w.dt + w.timezone)
      [] OTHER -> Ok("('" \o item \o "?')")

\* A join that puts each later string in front.
RECURSIVE join_reversed(_, _)
join_reversed(strs, sep) ==
    IF strs = << >> THEN ""
    ELSE IF Len(strs) = 1 THEN strs[1]
    ELSE strs[Len(strs)] \o sep \o join_reversed(SubSeq(strs, 1, Len(strs) - 1), sep)

\* [String]::join (main.rs:137).
RECURSIVE join(_, _)
join(strs, sep) ==
    IF strs = << >> THEN ""
    ELSE IF Len(strs) = 1 THEN strs[1]
    ELSE join(SubSeq(strs, 1, Len(strs) - 1), sep) \o sep \o strs[Len(strs)]

(***************************************************************************)
(* tinywx (src/src/main.rs)                                                *)
(***************************************************************************)

\* The argument rules without file's conflicts_with_all.
clap_errors_without_conflicts(a) ==
    {"error: The following required arguments were not provided" :
        x \in {y \in RequiredArgs : "file" \notin a.present /\ y \notin a.present}}
    \cup {"error: The argument '--data <WX_DATA>...' requires a value but none was supplied" :
        x \in {y \in {"data"} : "data" \in a.present /\ a.data = << >>}}
    \cup {"error: \"" \o a.data[i] \o "\" isn't a valid value for '--data <WX_DATA>...'" :
        i \in {j \in 1..Len(a.data) : a.data[j] \notin possible_values}}

\* The rules of the argument declarations (main.rs:31-95) a command line
\* breaks, each as the error clap reports for it.
clap_errors(a) ==
    {"error: The argument '--file <FILE>' cannot be used with one or more of the other specified arguments" :
        x \in {y \in {"file"} : "file" \in a.present /\ a.present \cap conflicts_with_all # {}}}
    \cup {"error: The following required arguments were not provided" :
        x \in {y \in RequiredArgs : "file" \notin a.present /\ y \notin a.present}}
    \cup {"error: The argument '--data <WX_DATA>...' requires a value but none was supplied" :
        x \in {y \in {"data"} : "data" \in a.present /\ a.data = << >>}}
    \cup {"error: \"" \o a.data[i] \o "\" isn't a valid value for '--data <WX_DATA>...'" :
        i \in {j \in 1..Len(a.data) : a.data[j] \notin possible_values}}

\* toml_from_file for a Config whose every field is #[serde(default)].
toml_from_file_all_default(f) ==
    CASE f.kind = "unreadable" -> Err("No such file or directory (os error 2)")
      [] f.kind = "malformed" -> Err("expected an equals, found eof at line 1 column 5")
      [] OTHER -> Ok([city |-> f.city, state |-> f.state, country |-> f.country,
                      api_key |-> f.api_key, imperial |-> f.imperial, data |-> f.data])

\* toml_from_file (main.rs:141-145) with Config's Deserialize (main.rs:7-18).
toml_from_file(f) ==
    CASE f.kind = "unreadable" -> Err("No such file or directory (os error 2)")
      [] f.kind = "malformed" -> Err("expected an equals, found eof at line 1 column 5")
      [] OTHER ->
           IF RequiredKeys \subseteq f.keys
           THEN Ok([city |-> f.city, state |-> f.state, country |-> f.country,
                    api_key |-> f.api_key, imperial |-> f.imperial, data |-> f.data])
           ELSE Err("missing field "
                    \o (IF "city" \notin f.keys THEN "city"
                        ELSE IF "country" \notin f.keys THEN "country" ELSE "api_key"))

\* The cfg app fills from the matches (main.rs:107-119).
config_from_matches(a) ==
    [city |-> a.city, state |-> a.state, country |-> a.country,
     api_key |-> a.api_key, imperial |-> "imperial" \in a.present, data |-> a.data]

\* clap's get_matches (main.rs:28-96): a command line that breaks a rule is
\* reported on standard error and the process exits with status 2.
get_matches ==
    /\ pc = "get_matches"
    /\ \/ /\ clap_errors(argv) = {}
          /\ pc' = "resolve"
          /\ UNCHANGED <<stderr, exit_code>>
       \/ /\ \E e \in clap_errors(argv) : stderr' = <<e>>
          /\ exit_code' = 2
          /\ pc' = "exited"
    /\ UNCHANGED <<argv, file, cfg, requests, current_weather, rendered, panic_at,
                   result, stdout>>

\* The configuration (main.rs:100-120): from the file when -f was given,
\* else from the matches.  The ? returns toml_from_file's error from app.
resolve ==
    /\ pc = "resolve"
    /\ IF "file" \in argv.present
       THEN IF toml_from_file(file).ok
            THEN /\ cfg' = toml_from_file(file).val
                 /\ pc' = "fetch"
                 /\ UNCHANGED result
            ELSE /\ result' = toml_from_file(file)
                 /\ pc' = "main"
                 /\ UNCHANGED cfg
       ELSE /\ cfg' = config_from_matches(argv)
            /\ pc' = "fetch"
            /\ UNCHANGED result
    /\ UNCHANGED <<argv, file, requests, current_weather, rendered, panic_at,
                   stdout, stderr, exit_code>>

\* wx::get (main.rs:123-129, lib.rs:199-210): one blocking GET; the request
\* fails in transport, or its body is not a CurrentWeather, or it is one.
fetch ==
    /\ pc = "fetch"
    /\ requests' = Append(requests,
                          query_pairs(Location_to_string(cfg.city, cfg.state, cfg.country),
                                      Units_as_str(cfg.imperial), cfg.api_key))
    /\ \/ /\ result' = Err("error sending request for url (https://api.openweathermap.org/data/2.5/weather)")
          /\ pc' = "main"
          /\ UNCHANGED current_weather
       \/ /\ result' = Err("missing field weather at line 1 column 40")
          /\ pc' = "main"
          /\ UNCHANGED current_weather
       \/ /\ current_weather' \in Responses
          /\ pc' = "render"
          /\ UNCHANGED result
    /\ UNCHANGED <<argv, file, cfg, rendered, panic_at, stdout, stderr, exit_code>>

\* One step of the map over cfg.data (main.rs:132-136): the next field is
\* rendered; a panic in get unwinds out of main with status 101.
render ==
    /\ pc = "render"
    /\ Len(rendered) < Len(cfg.data)
    /\ LET i == Len(rendered) + 1
           r == CurrentWeather_get(current_weather, cfg.data[i])
       IN  IF r.ok
           THEN /\ rendered' = Append(rendered, r.val)
                /\ UNCHANGED <<pc, panic_at, stderr, exit_code>>
           ELSE /\ panic_at' = i
                /\ stderr' = <<"thread 'main' panicked: " \o r.val>>
                /\ exit_code' = 101
                /\ pc' = "exited"
                /\ UNCHANGED rendered
    /\ UNCHANGED <<argv, file, cfg, requests, current_weather, result, stdout>>

\* collect and join (main.rs:136-137): app returns the line.
collect_join ==
    /\ pc = "render"
    /\ Len(rendered) = Len(cfg.data)
    /\ result' = Ok(join(rendered, " "))
    /\ pc' = "main"
    /\ UNCHANGED <<argv, file, cfg, requests, current_weather, rendered, panic_at,
                   stdout, stderr, exit_code>>

\* main with println! in both arms.
main_println_both ==
    /\ pc = "main"
    /\ stdout' = Append(stdout, result.val)
    /\ exit_code' = 0
    /\ pc' = "exited"
    /\ UNCHANGED <<argv, file, cfg, requests, current_weather, rendered, panic_at,
                   result, stderr>>

\* main (main.rs:20-25): print what app returned, then return normally.
main ==
    /\ pc = "main"
    /\ IF result.ok
       THEN stdout' = Append(stdout, result.val) /\ UNCHANGED stderr
       ELSE stderr' = Append(stderr, result.val) /\ UNCHANGED stdout
    /\ exit_code' = 0
    /\ pc' = "exited"
    /\ UNCHANGED <<argv, file, cfg, requests, current_weather, rendered, panic_at,
                   result>>

Next == get_matches \/ resolve \/ fetch \/ render \/ collect_join \/ main

Spec == Init /\ [][Next]_vars

TypeOK ==
    /\ pc \in {"get_matches", "resolve", "fetch", "render", "main", "exited"}
    /\ Len(requests) \in 0..1
    /\ Len(rendered) <= Len(cfg.data)
    /\ exit_code \in {-1, 0, 2, 101}

(***************************************************************************)
(* Properties                                                              *)
(***************************************************************************)

FromFile == "file" \in argv.present

\* The fetch returned a parsed response.
Fetched == current_weather \in Responses

\* The run ended with an error: clap's, or the one app returned.
ClapFailed == exit_code = 2
AppFailed == ~result.ok

\* The list of fields the user asked for, at its source.
RequestedData == IF FromFile THEN file.data ELSE argv.data

\* render(w, d[1]) render(w, d[2]) ... with one space between neighbours.
RECURSIVE ExpectedLine(_, _)
ExpectedLine(w, d) ==
    IF d = << >> THEN ""
    ELSE IF Len(d) = 1 THEN CurrentWeather_get(w, d[1]).val
    ELSE CurrentWeather_get(w, d[1]).val \o " " \o ExpectedLine(w, Tail(d))

\* C1: when configuration resolution (flag parsing, file read, TOML parse)
\* or the fetch returns an error, the error's text is what standard error
\* receives, no field is ever rendered and standard output stays empty.
C1_ErrorAbortsRun ==
    /\ AppFailed =>
          /\ pc \in {"main", "exited"}
          /\ ~Fetched /\ rendered = << >> /\ panic_at = 0
          /\ stdout = << >>
          /\ pc = "exited" => stderr = <<result.val>>
    /\ ClapFailed =>
          /\ pc = "exited"
          /\ ~Fetched /\ rendered = << >> /\ panic_at = 0
          /\ stdout = << >>
          /\ Len(stderr) = 1 /\ stderr[1] \in clap_errors(argv)

\* A run whose fetch failed has ended.
C1_Witness ==
    pc = "exited" /\ AppFailed /\ requests # << >> /\ stderr = <<result.val>>

\* C2: an invocation that gives -f together with any of city, state,
\* country, data, imperial or api_key fails with clap's error and never
\* issues a request.
C2_FileExcludesFlags ==
    (FromFile /\ argv.present \cap conflicts_with_all # {}) =>
        /\ requests = << >>
        /\ cfg = Config_default
        /\ pc \in {"get_matches", "exited"}
        /\ pc = "exited" =>
              /\ exit_code = 2
              /\ stdout = << >>
              /\ Len(stderr) = 1 /\ stderr[1] \in clap_errors(argv)

\* -f with a complete set of flags has been refused.
C2_Witness ==
    /\ argv.present = ArgNames
    /\ argv.data = <<"temp">>
    /\ pc = "exited" /\ exit_code = 2 /\ requests = << >>

\* What C3 calls a configuration that must not resolve, per source.
FlagsDeficient ==
    /\ ~FromFile
    /\ \/ {"city", "country", "api_key"} \ argv.present # {}
       \/ argv.data = << >>
       \/ \E i \in 1..Len(argv.data) : argv.data[i] \notin KnownItems

FileUnusable ==
    /\ FromFile
    /\ \/ file.kind # "table"
       \/ RequiredKeys \ file.keys # {}

FileDataDeficient ==
    /\ FromFile
    /\ file.kind = "table"
    /\ \/ file.data = << >>
       \/ \E i \in 1..Len(file.data) : file.data[i] \notin KnownItems

\* Resolution failed: no request, no response, and the run ends in an
\* error with nothing on standard output.
ResolutionFails ==
    /\ requests = << >>
    /\ pc \in {"get_matches", "resolve", "main", "exited"}
    /\ pc = "main" => AppFailed
    /\ pc = "exited" => (AppFailed \/ ClapFailed) /\ stdout = << >> /\ stderr # << >>

\* C3 as claimed: from either source, a missing city, country or api_key,
\* an empty data list, a token outside the vocabulary, or an unreadable or
\* malformed file makes resolution fail before any fetch.
C3_Original ==
    (FlagsDeficient \/ FileUnusable \/ FileDataDeficient) => ResolutionFails

\* C3: from flags, a missing city, country or api_key, an empty data list
\* or a token outside the vocabulary makes resolution fail before any
\* fetch; from a file, so does a missing city, country or api_key and an
\* unreadable or malformed file, whereas the file's data list is taken as
\* it is (empty, or with unknown tokens) and the fetch is attempted.
C3_ResolutionValidates ==
    /\ (FlagsDeficient \/ FileUnusable) => ResolutionFails
    /\ (argv.present = {"file"} /\ ~FileUnusable) =>
          /\ pc \notin {"get_matches", "resolve"} => cfg.data = file.data
          /\ pc \notin {"get_matches", "resolve", "fetch"} => Len(requests) = 1
          /\ pc = "exited" => exit_code # 2

\* A file without its city key was refused, and a file with an empty data
\* list is not in this state.
C3_Witness ==
    /\ argv.present = {"file"}
    /\ file.kind = "table" /\ "city" \notin file.keys
    /\ pc = "exited" /\ AppFailed /\ requests = << >>

\* C4: a run that prints its line prints exactly one, the renderings of
\* the requested fields in the requested order, repeats kept, one space
\* between neighbours.
C4_OutputLine ==
    (pc = "exited" /\ stdout # << >>) =>
        /\ Fetched
        /\ cfg.data = RequestedData
        /\ Len(rendered) = Len(RequestedData)
        /\ \A i \in 1..Len(rendered) :
              rendered[i] = CurrentWeather_get(current_weather, RequestedData[i]).val
        /\ stdout = <<ExpectedLine(current_weather, RequestedData)>>

\* A line with two different fields, and one with a repeated field.
C4_Witness ==
    /\ pc = "exited" /\ Len(stdout) = 1
    /\ RequestedData \in {<<"temp", "icon">>, <<"temp", "temp">>}
    /\ stdout[1] \in {"15U+00B0 U+E30D", "15U+00B0 15U+00B0"}

\* C5: a requested field name get does not know renders as a placeholder
\* holding the name, the run does not abort, and the line holds every
\* requested field (for a response with a non-empty condition list).
C5_UnknownFieldNeverAborts ==
    (/\ Fetched
     /\ current_weather.weather # << >>
     /\ \E i \in 1..Len(cfg.data) : cfg.data[i] \notin KnownItems) =>
        /\ panic_at = 0
        /\ \A i \in 1..Len(rendered) :
              cfg.data[i] \notin KnownItems => rendered[i] = "('" \o cfg.data[i] \o "?')"
        /\ pc = "exited" =>
              /\ Len(rendered) = Len(cfg.data)
              /\ stdout = <<ExpectedLine(current_weather, cfg.data)>>

\* C6: a run that ends in an error exits with a non-zero status, a run
\* that prints the weather line exits with zero.
C6_ExitStatus ==
    pc = "exited" =>
        /\ (AppFailed \/ ClapFailed) => exit_code # 0
        /\ stdout # << >> => exit_code = 0

\* The nine conditions of lib.rs:9-26, each as its day and night code.
DayNight ==
    {<<"01d", "01n">>, <<"02d", "02n">>, <<"03d", "03n">>, <<"04d", "04n">>,
     <<"09d", "09n">>, <<"10d", "10n">>, <<"11d", "11n">>, <<"13d", "13n">>,
     <<"50d", "50n">>}

\* The other code of the same condition.
Counterpart(c) ==
    LET p == CHOOSE q \in DayNight : c \in {q[1], q[2]}
    IN  IF c = p[1] THEN p[2] ELSE p[1]

\* The conditions whose day and night codes have symbols of their own.
OwnSymbols == {"01d", "01n", "02d", "02n"}

\* The icon code of the response and the indices where it was rendered.
IconCode == current_weather.weather[1].icon
IconRendered ==
    {i \in 1..Len(rendered) : cfg.data[i] = "icon" /\ current_weather.weather # << >>}

\* C7 as claimed: a table code renders as the symbol its day/night
\* counterpart renders as, any other code as "?".
C7_Original ==
    \A i \in IconRendered :
        IF IconCode \in IconTable
        THEN rendered[i] # "?" /\ rendered[i] = match_icon(Counterpart(IconCode))
        ELSE rendered[i] = "?"

\* C7: icon translation is total: the day and night codes of scattered
\* clouds, broken clouds, shower rain, rain, thunderstorm, snow and mist
\* render as one symbol per condition; those of clear and of few clouds
\* render as a symbol each, day and night differing; any other code
\* renders as "?".
C7_IconTranslation ==
    /\ \A i \in IconRendered :
          CASE IconCode \in IconTable \ OwnSymbols ->
                 rendered[i] # "?" /\ rendered[i] = match_icon(Counterpart(IconCode))
            [] IconCode \in OwnSymbols ->
                 rendered[i] # "?" /\ rendered[i] # match_icon(Counterpart(IconCode))
            [] OTHER -> rendered[i] = "?"
    /\ (panic_at # 0 /\ cfg.data[panic_at] = "icon") => current_weather.weather = << >>

\* The night code of snow has been rendered.
C7_Witness ==
    /\ IconRendered # {}
    /\ IconCode = "13n"
    /\ \A i \in IconRendered : rendered[i] = "U+F2DC"

\* HH:MM:SS of the instant t seconds after the epoch, by floor division.
WallClock(t) ==
    TwoDigits((t \div 3600) % 24) \o ":" \o TwoDigits((t \div 60) % 60)
        \o ":" \o TwoDigits(t % 60)

\* C8: whatever dt and timezone are, rendering time does not fail and
\* gives the UTC wall-clock time of the instant dt + timezone.
C8_TimeTotal ==
    Fetched =>
        \A i \in 1..Len(cfg.data) :
            cfg.data[i] = "time" =>
                /\ panic_at # i
                /\ i <= Len(rendered) =>
                      rendered[i] = WallClock(current_weather.dt + current_weather.timezone)

\* C9: a run issues at most one request, only once the configuration has
\* resolved, never again after a failure, with q = city,country (or
\* city,state,country when state is not empty), units = imperial exactly
\* when the flag is set, else metric, and appid = the API key.
C9_OneRequest ==
    /\ Len(requests) <= 1
    /\ pc \in {"get_matches", "resolve", "fetch"} => requests = << >>
    /\ requests # << >> =>
          /\ ~ClapFailed
          /\ cfg = (IF FromFile THEN toml_from_file(file).val ELSE config_from_matches(argv))
          /\ requests[1] =
                << <<"q", IF cfg.state = "" THEN cfg.city \o "," \o cfg.country
                          ELSE cfg.city \o "," \o cfg.state \o "," \o cfg.country>>,
                   <<"units", IF cfg.imperial THEN "imperial" ELSE "metric">>,
                   <<"appid", cfg.api_key>> >>

\* A failed fetch has ended the run with its one request, state empty.
C9_Witness ==
    /\ pc = "exited" /\ AppFailed
    /\ cfg.state = "" /\ ~cfg.imperial
    /\ requests = << << <<"q", "Paris,US">>, <<"units", "metric">>, <<"appid", "k3y">> >> >>

\* The fields whose rendering reads the condition list.
ReadsConditions == {"icon", "description"}

\* C10: a response with an empty condition list is accepted by the fetch;
\* on it temp, feels_like, humidity and unknown names render, icon and
\* description do not, and a run that asks for either ends abnormally with
\* nothing on standard output; on a non-empty list icon and description
\* come from its first entry.
C10_EmptyConditionList ==
    /\ (Fetched /\ current_weather.weather = << >>) =>
          /\ \A i \in 1..Len(rendered) : cfg.data[i] \notin ReadsConditions
          /\ panic_at # 0 => cfg.data[panic_at] \in ReadsConditions \cup {"time"}
          /\ (pc \in {"main", "exited"} /\ \A i \in 1..Len(cfg.data) : cfg.data[i] \notin ReadsConditions \cup {"time"}) =>
                Len(rendered) = Len(cfg.data) /\ panic_at = 0
          /\ (pc = "exited" /\ \E i \in 1..Len(cfg.data) : cfg.data[i] \in ReadsConditions) =>
                /\ panic_at # 0
                /\ exit_code = 101
                /\ stdout = << >>
    /\ (Fetched /\ current_weather.weather # << >>) =>
          \A i \in 1..Len(rendered) :
              /\ cfg.data[i] = "icon" => rendered[i] = match_icon(Head(current_weather.weather).icon)
              /\ cfg.data[i] = "description" => rendered[i] = Head(current_weather.weather).description

\* temp was rendered, then icon aborted the run on an empty list.
C10_Witness ==
    /\ Fetched /\ current_weather.weather = << >>
    /\ cfg.data = <<"temp", "icon">>
    /\ rendered = <<"15U+00B0">>
    /\ pc = "exited" /\ panic_at = 2 /\ exit_code = 101 /\ stdout = << >>

====
